---- MODULE Spec2Model ----
(***************************************************************************)
(* Model of src/setup_config.py: the interactive wizard that collects      *)
(* settings and writes them to config.yaml.                                *)
(*                                                                         *)
(* Text typed by the user (and every default it can be replaced by) is a   *)
(* sequence of one-character strings, so that strip(), split(","),         *)
(* lower() and int() are computed character by character.  Text the        *)
(* program never inspects (prompt labels, constant document fields) is an  *)
(* ordinary string.                                                        *)
(***************************************************************************)
EXTENDS Integers, Sequences, FiniteSets, TLC

\* ------------------------------------------------------------------ bounds
MaxLen == 3
MaxIntLen == 1

\* ---------------------------------------------------------- python values
None == "None"
Whitespace == {" ", "\t"}
Digits == {"0", "1", "2", "3", "4", "5", "6", "7", "8", "9"}

PyInt(n) == [type |-> "int", val |-> n]
PyStr(s) == [type |-> "str", val |-> s]

RECURSIVE StrsOver(_, _)
StrsOver(alphabet, n) ==
  IF n = 0 THEN {<<>>}
  ELSE LET shorter == StrsOver(alphabet, n - 1)
       IN shorter \cup {Append(s, c) : s \in shorter, c \in alphabet}

\* str.strip(): drop leading, then trailing, whitespace
RECURSIVE LStrip(_)
LStrip(s) ==
  IF s = <<>> THEN s
  ELSE IF Head(s) \in Whitespace THEN LStrip(Tail(s)) ELSE s

RECURSIVE RStrip(_)
RStrip(s) ==
  IF s = <<>> THEN s
  ELSE IF s[Len(s)] \in Whitespace THEN RStrip(SubSeq(s, 1, Len(s) - 1)) ELSE s

Strip(s) == RStrip(LStrip(s))

\* str.lower() on the letters the overwrite answer can contain
LowerChar(c) ==
  CASE c = "Y" -> "y"
    [] c = "N" -> "n"
    [] c = "E" -> "e"
    [] c = "S" -> "s"
    [] OTHER -> c

Lower(s) == [i \in 1..Len(s) |-> LowerChar(s[i])]

\* str.split(","): scans left to right, one more field than there are commas
RECURSIVE SplitFrom(_, _)
SplitFrom(s, cur) ==
  IF s = <<>> THEN <<cur>>
  ELSE IF Head(s) = "," THEN <<cur>> \o SplitFrom(Tail(s), <<>>)
  ELSE SplitFrom(Tail(s), Append(cur, Head(s)))

Split(s) == SplitFrom(s, <<>>)

\* ", ".join(items)
RECURSIVE Join(_)
Join(items) ==
  IF items = <<>> THEN <<>>
  ELSE IF Len(items) = 1 THEN items[1]
  ELSE items[1] \o <<",", " ">> \o Join(Tail(items))

\* the list comprehension of ask_list: [item.strip() for item in parts if item.strip()]
RECURSIVE StripNonEmpty(_)
StripNonEmpty(parts) ==
  IF parts = <<>> THEN <<>>
  ELSE IF Strip(Head(parts)) # <<>>
       THEN <<Strip(Head(parts))>> \o StripNonEmpty(Tail(parts))
       ELSE StripNonEmpty(Tail(parts))

\* int(text) in base 10: optional sign, then digits, single underscores
\* allowed between digits; anything else raises ValueError (ok = FALSE)
DigitVal(c) ==
  CASE c = "0" -> 0 [] c = "1" -> 1 [] c = "2" -> 2 [] c = "3" -> 3
    [] c = "4" -> 4 [] c = "5" -> 5 [] c = "6" -> 6 [] c = "7" -> 7
    [] c = "8" -> 8 [] c = "9" -> 9

RECURSIVE DigitsValue(_, _)
DigitsValue(s, acc) ==
  IF s = <<>> THEN acc
  ELSE IF Head(s) = "_" THEN DigitsValue(Tail(s), acc)
  ELSE DigitsValue(Tail(s), 10 * acc + DigitVal(Head(s)))

WellFormedDigits(s) ==
  /\ s # <<>>
  /\ \A i \in 1..Len(s) : s[i] \in Digits \cup {"_"}
  /\ s[1] # "_"
  /\ s[Len(s)] # "_"
  /\ \A i \in 1..(Len(s) - 1) : ~(s[i] = "_" /\ s[i + 1] = "_")

ParseInt(text) ==
  LET s == Strip(text)
      signed == s # <<>> /\ s[1] \in {"+", "-"}
      body == IF signed THEN Tail(s) ELSE s
  IN IF WellFormedDigits(body)
     THEN [ok |-> TRUE,
           val |-> IF signed /\ s[1] = "-" THEN 0 - DigitsValue(body, 0)
                   ELSE DigitsValue(body, 0)]
     ELSE [ok |-> FALSE, val |-> 0]

\* ------------------------------------------------------------ the prompts
\* ask(prompt, default): what is shown, and what is returned for a line
AskShown(default) == IF default # <<>> THEN default ELSE <<>>

\* variants of ask with a slip: the untrimmed line returned; the default dropped
ask_untrimmed(default, line) ==
  IF Strip(line) # <<>> THEN line ELSE default

ask_no_default(default, line) == Strip(line)

ask(default, line) ==
  LET val == Strip(line)
  IN IF val # <<>> THEN val ELSE default

\* ask_list(prompt, default_items)
AskListShown(default_items) == Join(default_items)

\* variants of ask_list with a slip: empty fields kept; the default returned
\* whenever no item was parsed
ask_list_keep_empty(default_items, line) ==
  LET raw == Strip(line)
      parts == Split(raw)
  IN IF raw = <<>> THEN default_items
     ELSE [k \in 1..Len(parts) |-> Strip(parts[k])]

ask_list_default_if_none(default_items, line) ==
  IF StripNonEmpty(Split(Strip(line))) = <<>> THEN default_items
  ELSE StripNonEmpty(Split(Strip(line)))

ask_list(default_items, line) ==
  LET raw == Strip(line)
  IN IF raw = <<>> THEN default_items
     ELSE StripNonEmpty(Split(raw))

\* ------------------------------------------------- defaults of build_config
DefaultFullName == <<"Y","o","u","r"," ","N","a","m","e">>
DefaultEmail == <<"y","o","u","r","_","e","m","a","i","l","@","d","o","m","a","i","n",".","c","o","m">>
DefaultPhone == <<"1","2","3","-","4","5","6","-","7","8","9","0">>
DefaultPortfolioLinks ==
  << <<"h","t","t","p","s",":","/","/","g","i","t","h","u","b",".","c","o","m","/","y","o","u","r","h","a","n","d","l","e">>,
     <<"h","t","t","p","s",":","/","/","l","i","n","k","e","d","i","n",".","c","o","m","/","i","n","/","y","o","u","r","h","a","n","d","l","e">> >>
DefaultExcelPath == <<"d","a","t","a","/","a","p","p","l","i","c","a","t","i","o","n","s",".","x","l","s","x">>
DefaultScreenshotsDir == <<"p","r","o","o","f","/">>
DefaultBaseTitles == << <<"p","y","t","h","o","n"," ","d","e","v","e","l","o","p","e","r">> >>
DefaultIncludeKeywords ==
  << <<"P","y","t","h","o","n">>, <<"D","j","a","n","g","o">>, <<"F","l","a","s","k">>,
     <<"A","W","S">>, <<"S","Q","L">> >>
DefaultExcludeKeywords == <<>>
DefaultRecency == <<"6","0">>
DefaultRunEvery == <<"1","5">>
FallbackRecency == 60
FallbackRunEvery == 15

\* variant with a slip: the except branch keeps the text it could not parse
CoerceIntKeepText(answer, fallback) ==
  LET parsed == ParseInt(answer)
  IN IF parsed.ok THEN [value |-> PyInt(parsed.val), warned |-> FALSE]
     ELSE [value |-> PyStr(answer), warned |-> TRUE]

\* the try/except around int(): the value stored and whether the warning
\* line is printed
CoerceInt(answer, fallback) ==
  LET parsed == ParseInt(answer)
  IN IF parsed.ok THEN [value |-> PyInt(parsed.val), warned |-> FALSE]
     ELSE [value |-> PyInt(fallback), warned |-> TRUE]

\* ------------------------------------------------- the document (cfg = {...})
UserProfile(l) ==
  [full_name |-> l.full_name,
   email |-> l.email,
   phone |-> l.phone,
   resume_master_path |-> "data/master_resume.docx",
   cover_letter_template_path |-> "data/cover_letter_template.docx",
   portfolio_links |-> l.portfolio_links]

Storage(l) ==
  [excel_path |-> l.excel_path,
   screenshots_dir |-> l.screenshots_dir,
   sheets |-> <<"jobs_raw", "apply_queue", "applications", "emails">>]

Search(l) ==
  [base_titles |-> l.base_titles,
   auto_expand_titles |-> TRUE,
   expansion_map |->
     ("python developer" :>
        <<"full stack python developer", "python backend developer",
          "django developer", "flask developer", "fastapi developer",
          "software engineer (python)">>),
   include_keywords |-> l.include_keywords,
   exclude_keywords |-> l.exclude_keywords,
   posting_recency_minutes |-> l.posting_recency_minutes]

Scheduler(l) ==
  [run_every_minutes |-> l.run_every_minutes,
   max_apps_per_run |-> None]

Platforms ==
  [enabled |-> <<"Dice">>,
   per_platform |->
     [Dice |-> [method |-> "Playwright",
                filters |-> [date_posted |-> "Past 24 hours",
                             remote |-> TRUE,
                             location |-> "United States"],
                visible_browser |-> TRUE]]]

\* variant with a slip: the sender is the placeholder, not the collected email
EmailOutreachPlaceholder(l) ==
  [enabled |-> TRUE,
   smtp_provider |-> "gmail",
   from_address |-> DefaultEmail,
   app_password_env |-> "GMAIL_APP_PASSWORD",
   subject_template |-> "Experienced {role} . {top_skills} . Available Immediately",
   body_template_path |-> "data/cold_email_template.txt",
   attach_tailored_resume |-> TRUE]

EmailOutreach(l) ==
  [enabled |-> TRUE,
   smtp_provider |-> "gmail",
   from_address |-> l.email,
   app_password_env |-> "GMAIL_APP_PASSWORD",
   subject_template |-> "Experienced {role} . {top_skills} . Available Immediately",
   body_template_path |-> "data/cold_email_template.txt",
   attach_tailored_resume |-> TRUE]

Document(l) ==
  [user_profile |-> UserProfile(l),
   storage |-> Storage(l),
   search |-> Search(l),
   scheduler |-> Scheduler(l),
   platforms |-> Platforms,
   email_outreach |-> EmailOutreach(l)]

\* ------------------------------------------------------------------ state
VARIABLES
  pc,      \* where the run is: the next prompt or filesystem call of main()
  fs,      \* config.yaml and its parent directory
  call,    \* the latest input() call: its default, the line read, its result
  loc,     \* the local variables of build_config bound so far
  cfg,     \* main()'s cfg, unbound until build_config returns
  out,     \* what has been written to standard output, in order
  status,  \* the exit status of the process, Running until it ends
  blank    \* history: every line read from standard input so far was empty

vars == <<pc, fs, call, loc, cfg, out, status, blank>>

Running == -1
Unbound == [unbound |-> TRUE]
NoLocals == [n \in {} |-> n]
NoCall == [fn |-> "none", default |-> <<>>, raw |-> <<>>, eof |-> FALSE,
           ret |-> <<>>, exc |-> None]

Missing == [kind |-> "missing"]
OldFile == [kind |-> "old"]
EmptyFile == [kind |-> "empty"]
PartialFile == [kind |-> "partial"]
Yaml(doc) == [kind |-> "yaml", doc |-> doc]

Prompt(text, shown) == [kind |-> "prompt", text |-> text, shown |-> shown]
Line(text) == [kind |-> "print", text |-> text, shown |-> <<>>]

Returned(fn, default, line, ret) ==
  [fn |-> fn, default |-> default, raw |-> line, eof |-> FALSE,
   ret |-> ret, exc |-> None]
Raised(fn, default) ==
  [fn |-> fn, default |-> default, raw |-> <<>>, eof |-> TRUE,
   ret |-> <<>>, exc |-> "EOFError"]

\* ------------------------------------------------------- lines a user types
OverwriteLines ==
  {<<>>, <<" ">>, <<"y">>, <<"Y">>, <<" ", "y", " ">>, <<"n">>, <<"N">>,
   <<"y", "e", "s">>, <<"Y", "E", "S">>}
TextLines == {<<>>, <<" ", "a", "@", "b", " ">>}
ListLines == {<<>>, <<"a", ",", " ", ",", "b">>}
IntLines ==
  StrsOver({"4", "a"}, MaxIntLen)
    \cup {<<"4", "5">>, <<" ", "4", "5", " ">>, <<"4", "_", "5">>, <<"+", "4">>,
          <<"-", "4">>, <<"4", " ", "5">>, <<" ">>}

Init ==
  /\ pc = "exists"
  /\ fs \in {[exists |-> FALSE, dir |-> FALSE, content |-> Missing, opens |-> 0],
             [exists |-> FALSE, dir |-> TRUE, content |-> Missing, opens |-> 0],
             [exists |-> TRUE, dir |-> TRUE, content |-> OldFile, opens |-> 0]}
  /\ call = NoCall
  /\ loc = NoLocals
  /\ cfg = Unbound
  /\ out = <<>>
  /\ status = Running
  /\ blank = TRUE

\* an exception nobody catches: traceback, exit status 1
Crash ==
  /\ pc' = "crashed"
  /\ status' = 1
  /\ loc' = NoLocals
  /\ blank' = blank

Banner == Line("=== jobbot . interactive config setup ===")

\* variant with a slip: the existence check is skipped
CheckExistsUnguarded ==
  /\ pc = "exists"
  /\ pc' = "full_name"
  /\ out' = Append(out, Banner)
  /\ UNCHANGED <<fs, call, loc, cfg, status, blank>>

\* main(): if CFG_PATH.exists()
CheckExists ==
  /\ pc = "exists"
  /\ IF fs.exists
     THEN /\ pc' = "overwrite"
          /\ out' = out
     ELSE /\ pc' = "full_name"
          /\ out' = Append(out, Banner)
  /\ UNCHANGED <<fs, call, loc, cfg, status, blank>>

\* variant with a slip: any answer starting with y counts as yes
AffirmativePrefix(ans) == ans # <<>> /\ ans[1] = "y"

Affirmative(ans) == ans = <<"y">>

\* main(): ans = input(...).strip().lower(); if ans != "y": ... return 0
AnswerOverwrite ==
  /\ pc = "overwrite"
  /\ \/ \E line \in OverwriteLines :
          LET ans == Lower(Strip(line))
          IN /\ call' = Returned("input", <<>>, line, ans)
             /\ IF Affirmative(ans)
                THEN /\ pc' = "full_name"
                     /\ out' = out \o <<Prompt("Overwrite? (y/N)", <<>>), Banner>>
                     /\ status' = status
                ELSE /\ pc' = "exit"
                     /\ out' = out \o <<Prompt("Overwrite? (y/N)", <<>>),
                                        Line("Keeping existing config.yaml. No changes made.")>>
                     /\ status' = 0
             /\ loc' = loc
             /\ blank' = (blank /\ line = <<>>)
     \/ /\ call' = Raised("input", <<>>)
        /\ out' = Append(out, Prompt("Overwrite? (y/N)", <<>>))
        /\ Crash
  /\ UNCHANGED <<fs, cfg>>

\* one ask(text, default) of build_config, bound to the local `name`
AskStep(here, next, name, text, default) ==
  /\ pc = here
  /\ out' = Append(out, Prompt(text, AskShown(default)))
  /\ \/ \E line \in TextLines :
          /\ call' = Returned("ask", default, line, ask(default, line))
          /\ loc' = loc @@ (name :> ask(default, line))
          /\ pc' = next
          /\ status' = status
          /\ blank' = (blank /\ line = <<>>)
     \/ /\ call' = Raised("ask", default)
        /\ Crash
  /\ UNCHANGED <<fs, cfg>>

\* one ask_list(text, default_items) of build_config
AskListStep(here, next, name, text, default_items) ==
  /\ pc = here
  /\ out' = Append(out, Prompt(text, AskListShown(default_items)))
  /\ \/ \E line \in ListLines :
          /\ call' = Returned("ask_list", default_items, line, ask_list(default_items, line))
          /\ loc' = loc @@ (name :> ask_list(default_items, line))
          /\ pc' = next
          /\ status' = status
          /\ blank' = (blank /\ line = <<>>)
     \/ /\ call' = Raised("ask_list", default_items)
        /\ Crash
  /\ UNCHANGED <<fs, cfg>>

AskFullName ==
  AskStep("full_name", "email", "full_name", "Your full name", DefaultFullName)
AskEmail ==
  AskStep("email", "phone", "email", "Your email (for outreach)", DefaultEmail)
AskPhone ==
  AskStep("phone", "portfolio_links", "phone", "Phone (optional)", DefaultPhone)
AskPortfolioLinks ==
  AskListStep("portfolio_links", "excel_path", "portfolio_links",
              "Portfolio links (comma-separated)", DefaultPortfolioLinks)
AskExcelPath ==
  AskStep("excel_path", "screenshots_dir", "excel_path", "Excel log path", DefaultExcelPath)
AskScreenshotsDir ==
  AskStep("screenshots_dir", "base_titles", "screenshots_dir", "Screenshots folder",
          DefaultScreenshotsDir)
AskBaseTitles ==
  AskListStep("base_titles", "include_keywords", "base_titles", "Base job titles",
              DefaultBaseTitles)
AskIncludeKeywords ==
  AskListStep("include_keywords", "exclude_keywords", "include_keywords",
              "Must-have keywords", DefaultIncludeKeywords)
AskExcludeKeywords ==
  AskListStep("exclude_keywords", "recency", "exclude_keywords", "Exclude keywords",
              DefaultExcludeKeywords)

\* recency = ask(...); try: int(recency) except ValueError: warn, use 60
AskRecency ==
  /\ pc = "recency"
  /\ \/ \E line \in IntLines :
          LET recency == ask(DefaultRecency, line)
              coerced == CoerceInt(recency, FallbackRecency)
          IN /\ call' = Returned("ask", DefaultRecency, line, recency)
             /\ loc' = loc @@ ("recency" :> recency)
                           @@ ("posting_recency_minutes" :> coerced.value)
             /\ out' = out \o <<Prompt("Posting recency in minutes", AskShown(DefaultRecency))>>
                           \o (IF coerced.warned
                               THEN <<Line("  ! Not a number; using 60")>> ELSE <<>>)
             /\ pc' = "run_every"
             /\ status' = status
             /\ blank' = (blank /\ line = <<>>)
     \/ /\ call' = Raised("ask", DefaultRecency)
        /\ out' = Append(out, Prompt("Posting recency in minutes", AskShown(DefaultRecency)))
        /\ Crash
  /\ UNCHANGED <<fs, cfg>>

\* run_every_minutes = ask(...); coerced the same way with 15; then the
\* document is assembled and build_config returns it to main()
AskRunEvery ==
  /\ pc = "run_every"
  /\ \/ \E line \in IntLines :
          LET answer == ask(DefaultRunEvery, line)
              coerced == CoerceInt(answer, FallbackRunEvery)
              locals == loc @@ ("run_every_minutes" :> coerced.value)
          IN /\ call' = Returned("ask", DefaultRunEvery, line, answer)
             /\ out' = out \o <<Prompt("Run every N minutes", AskShown(DefaultRunEvery))>>
                           \o (IF coerced.warned
                               THEN <<Line("  ! Not a number; using 15")>> ELSE <<>>)
             /\ cfg' = Document(locals)
             /\ loc' = NoLocals
             /\ pc' = "mkdir"
             /\ status' = status
             /\ blank' = (blank /\ line = <<>>)
     \/ /\ call' = Raised("ask", DefaultRunEvery)
        /\ out' = Append(out, Prompt("Run every N minutes", AskShown(DefaultRunEvery)))
        /\ cfg' = cfg
        /\ Crash
  /\ UNCHANGED fs

\* variant with a slip: a failed mkdir is swallowed and the run goes on
MkdirIgnoringFailure ==
  /\ pc = "mkdir"
  /\ pc' = "open"
  /\ \/ fs' = [fs EXCEPT !.dir = TRUE]
     \/ fs' = fs
  /\ UNCHANGED <<call, cfg, out, status, loc, blank>>

\* CFG_PATH.parent.mkdir(parents=True, exist_ok=True)
Mkdir ==
  /\ pc = "mkdir"
  /\ IF fs.dir
     THEN /\ pc' = "open"
          /\ UNCHANGED <<fs, status, loc, blank>>
     ELSE \/ /\ fs' = [fs EXCEPT !.dir = TRUE]
             /\ pc' = "open"
             /\ UNCHANGED <<status, loc, blank>>
          \/ /\ fs' = fs
             /\ Crash
  /\ UNCHANGED <<call, cfg, out>>

\* with CFG_PATH.open("w", encoding="utf-8") as f
Open ==
  /\ pc = "open"
  /\ \/ /\ fs.dir
        /\ fs' = [fs EXCEPT !.exists = TRUE, !.content = EmptyFile, !.opens = @ + 1]
        /\ pc' = "dump"
        /\ UNCHANGED <<status, loc, blank>>
     \/ /\ fs' = [fs EXCEPT !.opens = @ + 1]
        /\ Crash
  /\ UNCHANGED <<call, cfg, out>>

\* yaml.safe_dump(cfg, f, ...); print("Wrote ..."); return 0
Dump ==
  /\ pc = "dump"
  /\ \/ /\ fs' = [fs EXCEPT !.content = Yaml(cfg)]
        /\ out' = Append(out, Line("Wrote config.yaml"))
        /\ pc' = "exit"
        /\ status' = 0
        /\ UNCHANGED <<loc, blank>>
     \/ /\ fs' = [fs EXCEPT !.content = PartialFile]
        /\ out' = out
        /\ Crash
  /\ UNCHANGED <<call, cfg>>

Next ==
  \/ CheckExists
  \/ AnswerOverwrite
  \/ AskFullName
  \/ AskEmail
  \/ AskPhone
  \/ AskPortfolioLinks
  \/ AskExcelPath
  \/ AskScreenshotsDir
  \/ AskBaseTitles
  \/ AskIncludeKeywords
  \/ AskExcludeKeywords
  \/ AskRecency
  \/ AskRunEvery
  \/ Mkdir
  \/ Open
  \/ Dump

Spec == Init /\ [][Next]_vars

\* -------------------------------------------- the prompt functions alone
\* ask() and ask_list() called once, on every line up to MaxLen characters
AskAlphabet == {" ", "\t", "a"}
AskDefaults == {<<>>, <<"d">>, <<" ", "d", " ">>}
AskListAlphabet == {" ", ",", "a", "b"}
AskListDefaults == {<<>>, << <<"a">> >>, << <<"b">>, <<"a">> >>}

Calling(fn, default, line) ==
  [fn |-> fn, default |-> default, raw |-> line, eof |-> FALSE,
   ret |-> <<>>, exc |-> "pending"]

Idle ==
  /\ fs = [exists |-> FALSE, dir |-> TRUE, content |-> Missing, opens |-> 0]
  /\ loc = NoLocals
  /\ cfg = Unbound
  /\ status = Running
  /\ blank = TRUE

InitAsk ==
  /\ pc = "call"
  /\ \E default \in AskDefaults, line \in StrsOver(AskAlphabet, MaxLen) :
       /\ call = Calling("ask", default, line)
       /\ out = <<Prompt("ask", AskShown(default))>>
  /\ Idle

AskReturns ==
  /\ pc = "call"
  /\ call.fn = "ask"
  /\ call' = Returned("ask", call.default, call.raw, ask(call.default, call.raw))
  /\ pc' = "returned"
  /\ UNCHANGED <<fs, loc, cfg, out, status, blank>>

NextAsk == AskReturns

SpecAsk == InitAsk /\ [][NextAsk]_vars

InitAskList ==
  /\ pc = "call"
  /\ \E default_items \in AskListDefaults, line \in StrsOver(AskListAlphabet, MaxLen) :
       /\ call = Calling("ask_list", default_items, line)
       /\ out = <<Prompt("ask_list", AskListShown(default_items))>>
  /\ Idle

AskListReturns ==
  /\ pc = "call"
  /\ call.fn = "ask_list"
  /\ call' = Returned("ask_list", call.default, call.raw, ask_list(call.default, call.raw))
  /\ pc' = "returned"
  /\ UNCHANGED <<fs, loc, cfg, out, status, blank>>

NextAskList == AskListReturns

SpecAskList == InitAskList /\ [][NextAskList]_vars

\* ------------------------------------------------- vocabulary of the claims
\* the text between the first and the last non-whitespace character
NonSpace(s) == {i \in 1..Len(s) : s[i] \notin Whitespace}
IsBlank(s) == NonSpace(s) = {}
Min(S) == CHOOSE x \in S : \A y \in S : x <= y
Max(S) == CHOOSE x \in S : \A y \in S : x >= y
Trimmed(s) == IF IsBlank(s) THEN <<>> ELSE SubSeq(s, Min(NonSpace(s)), Max(NonSpace(s)))

\* the fields of a line: the texts between consecutive commas
Cuts(t) == {0} \cup {i \in 1..Len(t) : t[i] = ","} \cup {Len(t) + 1}
Cut(t, k) == CHOOSE c \in Cuts(t) : Cardinality({d \in Cuts(t) : d < c}) = k - 1
Field(t, k) == SubSeq(t, Cut(t, k) + 1, Cut(t, k + 1) - 1)
Fields(t) == [k \in 1..(Cardinality(Cuts(t)) - 1) |-> Trimmed(Field(t, k))]
NonEmpty(item) == item # <<>>

AskReturned == call.fn = "ask" /\ call.exc = None
AskListReturned == call.fn = "ask_list" /\ call.exc = None

TypeOK ==
  /\ status \in {Running, 0, 1}
  /\ fs.opens \in 0..1

\* ------------------------------------------------------------------ claims

\* C6: ask returns the default unchanged when the line is blank after
\* trimming, and the trimmed line otherwise; a result that came from the
\* user never starts or ends with whitespace.
C6_AskTrimOrDefault ==
  AskReturned =>
    /\ IsBlank(call.raw) => call.ret = call.default
    /\ ~IsBlank(call.raw) =>
         /\ call.ret = Trimmed(call.raw)
         /\ call.ret[1] \notin Whitespace
         /\ call.ret[Len(call.ret)] \notin Whitespace

C6_Witness ==
  /\ AskReturned
  /\ call.raw = <<" ", "a", "\t">>
  /\ call.ret = <<"a">>
  /\ call.default = <<" ", "d", " ">>

\* C4: for a line that is not blank, ask_list returns the trimmed non-empty
\* comma-separated fields of the trimmed line, in order, duplicates kept, and
\* nothing of the default list that the user did not type.
C4_AskListParses ==
  (AskListReturned /\ ~IsBlank(call.raw)) =>
    LET fields == Fields(Trimmed(call.raw))
    IN /\ call.ret = SelectSeq(fields, NonEmpty)
       /\ Len(call.ret) = Cardinality({k \in 1..Len(fields) : fields[k] # <<>>})
       /\ \A i \in 1..Len(call.ret) : \E k \in 1..Len(fields) : call.ret[i] = fields[k]

C4_Witness ==
  /\ AskListReturned
  /\ call.raw = <<"a", ",", "a">>
  /\ call.ret = << <<"a">>, <<"a">> >>
  /\ call.default = << <<"b">>, <<"a">> >>

\* C5 as stated: a line of only commas and whitespace gives the empty list
\* and never the default; the default is returned only for the line "".
C5_DefaultOnlyOnEmptyRawLine ==
  AskListReturned =>
    /\ call.raw = <<>> => call.ret = call.default
    /\ (call.raw # <<>> /\ \A i \in 1..Len(call.raw) : call.raw[i] \in Whitespace \cup {","})
         => call.ret = <<>>

\* C5 amended: the default list is returned, in content and order, exactly
\* when the line is blank after trimming (empty or whitespace only); a line
\* of commas and whitespace with at least one comma gives the empty list and
\* not the default.
C5_DefaultOnBlankLine ==
  AskListReturned =>
    /\ IsBlank(call.raw) => call.ret = call.default
    /\ (~IsBlank(call.raw) /\ \A i \in 1..Len(call.raw) : call.raw[i] \in Whitespace \cup {","})
         => call.ret = <<>>

C5_Witness ==
  /\ AskListReturned
  /\ call.raw = <<" ", ",", ",">>
  /\ call.default = << <<"b">>, <<"a">> >>
  /\ call.ret = <<>>

\* ---- claims about a whole run
Prompts == SelectSeq(out, LAMBDA m : m.kind = "prompt")
ConfigPrompts == SelectSeq(Prompts, LAMBDA m : m.text # "Overwrite? (y/N)")
Printed(text) == \E i \in 1..Len(out) : out[i].kind = "print" /\ out[i].text = text
Count(text) == Cardinality({i \in 1..Len(out) : out[i].kind = "print" /\ out[i].text = text})
Built == cfg # Unbound
SaidYes(line) == Trimmed(line) \in {<<"y">>, <<"Y">>}
OverwriteAnswered == call.fn = "input" /\ call.exc = None
PreExisting == [exists |-> TRUE, dir |-> TRUE, content |-> OldFile, opens |-> 0]

\* C1: with config.yaml present, any answer other than y/Y (after trimming)
\* ends the run with status 0, no document, no configuration prompt, no
\* directory or file operation, the file as it was; y or Y enters
\* build_config, and a run that then ends with status 0 has replaced the file.
C1_OverwriteGuard ==
  /\ (OverwriteAnswered /\ ~SaidYes(call.raw)) =>
        /\ pc = "exit"
        /\ status = 0
        /\ ~Built
        /\ ConfigPrompts = <<>>
        /\ ~Printed(Banner.text)
        /\ fs = PreExisting
  /\ (OverwriteAnswered /\ SaidYes(call.raw)) =>
        /\ pc = "full_name"
        /\ Printed(Banner.text)
  /\ (Prompts # <<>> /\ Prompts[1].text = "Overwrite? (y/N)" /\ status = 0 /\ Built) =>
        fs.content = Yaml(cfg)

C1_Witness ==
  /\ OverwriteAnswered
  /\ call.raw = <<"y", "e", "s">>
  /\ pc = "exit"
  /\ status = 0

\* C2: a prompt that meets end of input behaves as for an empty line: it
\* returns its default, nothing is raised and the run goes on.
C2_EndOfInputIsEmptyLine ==
  call.eof =>
    /\ call.exc = None
    /\ call.ret = call.default
    /\ pc # "crashed"
    /\ status # 1

\* C3: both numeric fields are stored as integers: the parsed answer with no
\* warning when the answer is an integer text, else the fallback (60, 15)
\* with exactly one warning, and the prompts go on.
C3_IntegerCoercion ==
  /\ "recency" \in DOMAIN loc =>
       LET answer == loc.recency
           stored == loc.posting_recency_minutes
       IN /\ stored.type = "int"
          /\ ParseInt(answer).ok =>
               stored.val = ParseInt(answer).val /\ Count("  ! Not a number; using 60") = 0
          /\ ~ParseInt(answer).ok =>
               stored.val = 60 /\ Count("  ! Not a number; using 60") = 1
          /\ answer = <<"4", "5">> => stored.val = 45
          /\ answer = DefaultRecency => stored.val = 60
          /\ pc = "run_every"
  /\ Built =>
       LET answer == call.ret
           stored == cfg.scheduler.run_every_minutes
       IN /\ stored.type = "int"
          /\ cfg.search.posting_recency_minutes.type = "int"
          /\ ParseInt(answer).ok =>
               stored.val = ParseInt(answer).val /\ Count("  ! Not a number; using 15") = 0
          /\ ~ParseInt(answer).ok =>
               stored.val = 15 /\ Count("  ! Not a number; using 15") = 1
          /\ answer = <<"4", "5">> => stored.val = 45
          /\ answer = DefaultRunEvery => stored.val = 15
          /\ pc \in {"mkdir", "open", "dump", "exit", "crashed"}

C3_Witness ==
  /\ Built
  /\ call.ret = <<"a">>
  /\ cfg.scheduler.run_every_minutes = PyInt(15)
  /\ cfg.search.posting_recency_minutes = PyInt(45)
  /\ Count("  ! Not a number; using 15") = 1
  /\ Count("  ! Not a number; using 60") = 0

\* C7: the document's email_outreach.from_address equals its
\* user_profile.email, which is the value the email prompt returned; no
\* later prompt changes it.
C7_SenderIsEmail ==
  /\ [](Built => cfg.email_outreach.from_address = cfg.user_profile.email)
  /\ [][/\ (pc = "email" /\ pc' = "phone") => loc'.email = call'.ret
        /\ ("email" \in DOMAIN loc /\ "email" \in DOMAIN loc') => loc'.email = loc.email
        /\ (~Built /\ Built') =>
             /\ cfg'.user_profile.email = loc.email
             /\ cfg'.email_outreach.from_address = loc.email]_vars

C7_Witness ==
  /\ Built
  /\ cfg.user_profile.email = <<"a", "@", "b">>
  /\ cfg.email_outreach.from_address = <<"a", "@", "b">>

\* C8: with no config.yaml and every prompt answered by an empty line, no
\* warning is printed and the document is the same every time: six sections,
\* run_every_minutes 15, posting_recency_minutes 60, max_apps_per_run null,
\* the four sheets and the one platform.
DefaultAnswers ==
  [full_name |-> DefaultFullName,
   email |-> DefaultEmail,
   phone |-> DefaultPhone,
   portfolio_links |-> DefaultPortfolioLinks,
   excel_path |-> DefaultExcelPath,
   screenshots_dir |-> DefaultScreenshotsDir,
   base_titles |-> DefaultBaseTitles,
   include_keywords |-> DefaultIncludeKeywords,
   exclude_keywords |-> <<>>,
   posting_recency_minutes |-> PyInt(60),
   run_every_minutes |-> PyInt(15)]

C8_AllDefaults ==
  (Built /\ blank) =>
    /\ Count("  ! Not a number; using 60") = 0
    /\ Count("  ! Not a number; using 15") = 0
    /\ DOMAIN cfg = {"user_profile", "storage", "search", "scheduler",
                     "platforms", "email_outreach"}
    /\ cfg.scheduler.run_every_minutes = PyInt(15)
    /\ cfg.search.posting_recency_minutes = PyInt(60)
    /\ cfg.scheduler.max_apps_per_run = None
    /\ cfg.storage.sheets = <<"jobs_raw", "apply_queue", "applications", "emails">>
    /\ cfg.platforms.enabled = <<"Dice">>
    /\ cfg.user_profile.full_name = DefaultFullName
    /\ cfg.user_profile.email = DefaultEmail
    /\ cfg.user_profile.phone = DefaultPhone
    /\ cfg.user_profile.portfolio_links = DefaultPortfolioLinks
    /\ cfg.storage.excel_path = DefaultExcelPath
    /\ cfg.storage.screenshots_dir = DefaultScreenshotsDir
    /\ cfg.search.base_titles = DefaultBaseTitles
    /\ cfg.search.include_keywords = DefaultIncludeKeywords
    /\ cfg.search.exclude_keywords = <<>>
    /\ cfg.email_outreach.from_address = DefaultEmail
    /\ cfg = Document(DefaultAnswers)

C8_Witness ==
  /\ Built
  /\ blank
  /\ pc = "exit"
  /\ status = 0
  /\ fs.content = Yaml(cfg)
  /\ Len(ConfigPrompts) = 11

\* C9: the write is attempted only once the parent directory exists; a
\* failed mkdir or write is not retried, prints no success message and ends
\* the run with a non-zero status; status 0 only after a successful write or
\* a declined overwrite.
C9_FilesystemFailure ==
  /\ fs.opens > 0 => fs.dir
  /\ fs.opens <= 1
  /\ (pc = "crashed" /\ Built) =>
        /\ status = 1
        /\ ~Printed("Wrote config.yaml")
        /\ fs.content # Yaml(cfg)
        /\ ~fs.dir => fs.opens = 0
  /\ Printed("Wrote config.yaml") => (status = 0 /\ fs.content = Yaml(cfg))
  /\ status = 0 =>
        \/ Built /\ fs.content = Yaml(cfg) /\ Printed("Wrote config.yaml")
        \/ /\ ~Built
           /\ Printed("Keeping existing config.yaml. No changes made.")
           /\ fs = PreExisting
  /\ pc = "crashed" => status = 1

C9_Witness ==
  /\ pc = "crashed"
  /\ Built
  /\ ~fs.dir
  /\ fs.opens = 0
  /\ status = 1

\* C10: config.yaml is opened at most once, and only when it did not exist
\* at the check or the overwrite was answered y, and after the eleven prompts
\* were answered in their order and the document built; until then an
\* existing file is as it was.
PromptOrder ==
  <<"Your full name", "Your email (for outreach)", "Phone (optional)",
    "Portfolio links (comma-separated)", "Excel log path", "Screenshots folder",
    "Base job titles", "Must-have keywords", "Exclude keywords",
    "Posting recency in minutes", "Run every N minutes">>

C10_WriteAfterScript ==
  /\ [](/\ fs.opens <= 1
        /\ Len(ConfigPrompts) <= 11
        /\ \A i \in 1..Len(ConfigPrompts) : ConfigPrompts[i].text = PromptOrder[i]
        /\ fs.opens = 1 => (Built /\ Len(ConfigPrompts) = 11)
        /\ ~Built => (fs.opens = 0 /\ (fs.exists => fs = PreExisting)))
  /\ [][/\ (pc = "exists" /\ pc' # "exists") => (pc' = "full_name" <=> ~fs.exists)
        /\ (pc = "overwrite" /\ pc' = "full_name") => SaidYes(call'.raw)
        /\ (pc' = "full_name" /\ pc # "full_name") => pc \in {"exists", "overwrite"}
        /\ fs'.opens # fs.opens => (pc = "open" /\ Built)
        /\ fs'.content # fs.content => (pc \in {"open", "dump"} /\ Built)]_vars

C10_Witness ==
  /\ pc = "crashed"
  /\ ~Built
  /\ Len(ConfigPrompts) = 5
  /\ Prompts[1].text = "Overwrite? (y/N)"
  /\ fs = PreExisting

====
